---- MODULE Spec2Model ----
(***************************************************************************)
(* Slide-to-video assembly pipeline of src/main.py:                        *)
(* create_professional_placement_video (the coordinator and exporter) and  *)
(* AdvancedVideoGenerator._create_slide_video_clip (the slide builder),    *)
(* with the narration synthesizer enhanced_text_to_speech; and, each under *)
(* a specification of its own, the script parser parse_script_into_slides, *)
(* the two slide renderers, _cleanup_temp_files, and repeated calls of the *)
(* coordinator.  From src/main+csr.py: the research bot's                  *)
(* process_email_and_generate_whatsapp_link and run_interactive.           *)
(*                                                                         *)
(* Texts are sequences of tokens.                                          *)
(* Durations are in whole seconds.  The outcome of every call into an      *)
(* external library (PIL, gTTS, pydub, moviepy) is chosen by the           *)
(* environment when the builder reaches it.  A statement `x.f += v' on the *)
(* shared SlideMetrics object is a read followed by a write: two steps of  *)
(* the thread that executes it.                                            *)
(***************************************************************************)
EXTENDS Integers, Sequences, FiniteSets, TLC

\* ---------------------------------------------------------------- bounds
MaxSlides == 4
MaxNarration == 2
MaxConfigDuration == 2
MaxText == 2
MaxLines == 4
MaxTotal == 2
MaxRuns == 2
MaxRepeatSlides == 2
MaxCleanupSlides == 2
MaxReplyLines == 2
MaxInput == 5

\* ------------------------------------------------------ program constants
\* `len(slides) > 3' and `min(4, len(slides))'
ParallelThreshold == 3
MaxWorkers == 4

VARIABLES
    VIDEO_LIBS_AVAILABLE,  \* module flag set by the import block
    slides,                \* the input list; slides[k] is the content of
                           \* the slide with slide_idx k-1
    parallel_processing,   \* argument
    config,                \* generator.config (VideoConfig)
    pc,                    \* position of the coordinator (the calling thread)
    seq_i,                 \* loop variable i of the sequential for-loop
    executor,              \* max_workers of the ThreadPoolExecutor, 0 = none
    task,                  \* task[idx]: one invocation of the slide builder
    yielded,               \* futures already yielded by as_completed
    metrics,               \* generator.metrics (SlideMetrics)
    temp_files,            \* generator.temp_files
    files,                 \* temporary files that exist on disk
    video_clips,           \* local list of the coordinator
    concat_arg,            \* argument of each concatenate_videoclips call
    exports,               \* number of write_videofile calls
    retval,                \* return value of the run
    env,                   \* what the libraries can do in this run
    inversions,            \* a clip was appended after one of a later slide
    incs,                  \* per slide: increments executed on the counters
    closed,                \* clips and audio tracks that have been closed
    progress,              \* k of the latest stage-2 report k / len(slides)
    calls,                 \* per slide: calls of the builder, the
                           \* synthesizer and the speech engine
    script,                \* argument of parse_script_into_slides
    parsed,                \* its return value
    render_args,           \* arguments of a slide renderer
    rendered,              \* what the renderer did
    invocation,            \* number of the current call of
                           \* create_professional_placement_video
    cleanup,               \* the calls of _cleanup_temp_files made so far
    bot,                   \* process_email_and_generate_whatsapp_link of
                           \* src/main+csr.py: position, locals, trace
    console                \* run_interactive: the lines typed, the loop

vars == <<VIDEO_LIBS_AVAILABLE, slides, parallel_processing, config, pc,
          seq_i, executor, task, yielded, metrics, temp_files, files,
          video_clips, concat_arg, exports, retval, env, inversions,
          incs, closed, progress, calls, script, parsed, render_args,
          rendered, invocation, cleanup, bot, console>>

\* ---------------------------------------------------------------- helpers
Min(a, b) == IF a < b THEN a ELSE b
Max(a, b) == IF a > b THEN a ELSE b

N == Len(slides)
Idx == 0 .. (N - 1)

\* Python None as the value of a clip variable
Null == [slide |-> -1, duration |-> 0, audio |-> FALSE]

VideoConfig(mn, mx) == [min_slide_duration |-> mn, max_slide_duration |-> mx]

SlideMetrics == [total_slides |-> 0, processed_slides |-> 0,
                 failed_slides |-> 0, total_duration |-> 0]

\* variant: the cap max_slide_duration is not applied
OptimalDuration_Unclamped(d, cfg) == Max(d + 1, cfg.min_slide_duration)

\* duration = max(min(audio_clip.duration + 1.0, max_slide_duration),
\*                min_slide_duration)
OptimalDuration(d, cfg) ==
    Max(Min(d + 1, cfg.max_slide_duration), cfg.min_slide_duration)

\* variant: the list is left in the order of completion
SortByIdx_Unsorted(s) == s

\* video_clips.sort(key=lambda x: x[0]): stable insertion by the key x[1]
\* of the <<slide_idx, clip>> pairs
RECURSIVE InsertByIdx(_, _)
InsertByIdx(p, s) ==
    IF s = <<>> THEN <<p>>
    ELSE IF p[1] < Head(s)[1] THEN <<p>> \o s
    ELSE <<Head(s)>> \o InsertByIdx(p, Tail(s))

RECURSIVE SortByIdx(_)
SortByIdx(s) ==
    IF s = <<>> THEN <<>>
    ELSE InsertByIdx(s[Len(s)], SortByIdx(SubSeq(s, 1, Len(s) - 1)))

\* [clip for _, clip in video_clips]
StripIdx(s) == [k \in 1 .. Len(s) |-> s[k][2]]

\* temporary file names: the slide image, the raw speech of tts.save, the
\* speed-adjusted narration, the output video
Png(i) == <<"png", i>>
Tts(i) == <<"tts", i>>
Mp3(i) == <<"mp3", i>>
Mp4 == <<"mp4", 0>>

\* A text is a sequence of tokens: the slide-delimiter markup "[SLIDE" and
\* "]", the colon, a blank, a newline, or a word.
Whitespace == {" ", "\n"}

\* str.strip()
RECURSIVE LStrip(_)
LStrip(t) ==
    IF t # <<>> /\ Head(t) \in Whitespace THEN LStrip(Tail(t)) ELSE t

RECURSIVE RStrip(_)
RStrip(t) ==
    IF t # <<>> /\ t[Len(t)] \in Whitespace
    THEN RStrip(SubSeq(t, 1, Len(t) - 1)) ELSE t

Strip(t) == RStrip(LStrip(t))

\* str.replace(tok, '')
RECURSIVE Remove(_, _)
Remove(t, tok) ==
    IF t = <<>> THEN <<>>
    ELSE IF Head(t) = tok THEN Remove(Tail(t), tok)
    ELSE <<Head(t)>> \o Remove(Tail(t), tok)

\* variant: the markup is left in the text
CleanText_KeepMarkup(t) ==
    Strip([k \in 1 .. Len(t) |-> IF t[k] = ":" THEN "." ELSE t[k]])

\* text.replace('[SLIDE', '').replace(']', '').replace(':', '.').strip()
CleanText(t) ==
    LET unmarked == Remove(Remove(t, "[SLIDE"), "]")
    IN Strip([k \in 1 .. Len(unmarked) |->
                 IF unmarked[k] = ":" THEN "." ELSE unmarked[k]])

\* the slide contents of a run: every text of at most MaxText tokens
RECURSIVE TextsUpTo(_)
TextsUpTo(n) ==
    IF n = 0 THEN {<<>>}
    ELSE LET shorter == TextsUpTo(n - 1)
         IN shorter \cup
            {Append(t, c) : t \in {u \in shorter : Len(u) = n - 1},
                            c \in {"[SLIDE", "]", ":", " ", "a"}}

Texts == TextsUpTo(MaxText)

\* a slide content with something to speak
Spoken == <<"a">>

\* builders that have been entered and have not returned
Executing == {i \in Idx : task[i].pc \notin {"idle", "queued", "returned"}}


\* What the libraries do for one slide: the renderer and the PNG save, the
\* narration (tts = -1: no audio file, else the length of the audio), the
\* audio attachment, and ImageClip on the silent paths.
\* synth is where enhanced_text_to_speech ends: "none" it is not called,
\* "empty" at `if not clean_text', "engine" gTTS(...) raises, "save"
\* tts.save, from_mp3 or speedup raises, "export" sound.export or
\* os.unlink raises, "ok" it returns the path.
\* A call that is not reached counts as succeeding, so that each course of
\* the builder is one outcome.
Outcomes ==
    {o \in [render : {"ok", "raise", "save_raise"},
            synth  : {"none", "empty", "engine", "save", "export", "ok"},
            tts    : -1 .. MaxNarration,
            attach : BOOLEAN,
            image  : BOOLEAN] :
        /\ (o.render = "ok") <=> (o.synth # "none")
        /\ (o.synth = "ok") <=> (o.tts >= 0)
        /\ o.render # "ok" => o.tts = -1
        /\ o.tts = -1 => o.attach
        /\ o.tts = -1 => (o.render = "ok" \/ o.image)
        /\ (o.tts >= 0 /\ o.attach) => o.image}

\* before the builder has run
NoOutcome == [render |-> "none", synth |-> "none", tts |-> -1,
              attach |-> TRUE, image |-> TRUE]

\* Environments of a run on the parallel path: every narration is missing
\* and ImageClip may raise, or every narration has the longest length and
\* the composition (attachment and silent fallback) may raise.
SilentOutcomes ==
    {o \in Outcomes : /\ o.render = "ok" /\ o.synth = "engine"
                      /\ o.tts = -1 /\ o.attach}
NarratedOutcomes ==
    {o \in Outcomes : /\ o.render = "ok" /\ o.tts = MaxNarration
                      /\ o.attach = o.image}

\* one more slide than the pool has threads
PoolOverflow == MaxWorkers + 1

\* ------------------------------------------------------------------- Init
\* Inputs with which the run ends at a guard or takes the sequential path:
\* every failure the libraries can produce, narrations missing or longest.
InputsSequential ==
    /\ VIDEO_LIBS_AVAILABLE \in BOOLEAN
    /\ \E n \in 0 .. MaxSlides : slides = [k \in 1 .. n |-> Spoken]
    /\ parallel_processing \in BOOLEAN
    /\ ~(VIDEO_LIBS_AVAILABLE /\ parallel_processing
                              /\ Len(slides) > ParallelThreshold)
    /\ config = VideoConfig(1, MaxConfigDuration)
    /\ env = {o \in Outcomes : /\ o.tts \in {-1, MaxNarration}
                               /\ o.synth \in {"none", "engine", "ok"}}

\* One slide on the sequential path: every content, every configuration,
\* every narration length and every failure.
InputsOneSlide ==
    /\ VIDEO_LIBS_AVAILABLE = TRUE
    /\ \E t \in Texts : slides = <<t>>
    /\ parallel_processing \in BOOLEAN
    /\ \E mn \in 1 .. MaxConfigDuration, mx \in 1 .. MaxConfigDuration :
          config = VideoConfig(mn, mx)
    /\ env = Outcomes

\* Inputs with which the run takes the parallel path with the fewest slides
\* that do: every slide gets a pool thread at once.
InputsParallel ==
    /\ VIDEO_LIBS_AVAILABLE = TRUE
    /\ slides = [k \in 1 .. (ParallelThreshold + 1) |-> Spoken]
    /\ parallel_processing = TRUE
    /\ config = VideoConfig(1, MaxConfigDuration)
    /\ env \in {SilentOutcomes, NarratedOutcomes}

\* Inputs with which the run takes the parallel path, up to one slide more
\* than the pool has threads: the last slide waits for a free thread.
InputsPool ==
    /\ VIDEO_LIBS_AVAILABLE = TRUE
    /\ \E n \in (ParallelThreshold + 1) .. PoolOverflow :
          slides = [k \in 1 .. n |-> Spoken]
    /\ parallel_processing = TRUE
    /\ config = VideoConfig(1, MaxConfigDuration)
    /\ env = SilentOutcomes

NewTask == [pc |-> "idle", thread |-> "none", reg |-> 0, clip |-> Null,
            outcome |-> NoOutcome]

\* the state when create_professional_placement_video is entered
Constructed ==
    /\ pc = "entry"
    /\ seq_i = 0
    /\ executor = 0
    /\ task = [i \in Idx |-> NewTask]
    /\ yielded = {}
    /\ metrics = SlideMetrics
    /\ temp_files = {}
    /\ files = {}
    /\ video_clips = <<>>
    /\ concat_arg = <<>>
    /\ exports = 0
    /\ retval = "running"
    /\ inversions = FALSE
    /\ incs = [i \in Idx |-> [processed |-> 0, failed |-> 0]]
    /\ closed = {}
    /\ progress = -1
    /\ calls = [i \in Idx |-> [builder |-> 0, synth |-> 0, engine |-> 0]]

\* parse_script_into_slides and the renderers are not called
NotParsed == [done |-> FALSE, slides |-> <<>>]
NoParse == script = <<>> /\ parsed = NotParsed

NotRendered == [result |-> "none", size |-> <<0, 0>>, scheme |-> "none"]
NoRender == render_args = [fn |-> "none"] /\ rendered = NotRendered

\* the first call of the process; _cleanup_temp_files not called on its own
NotCleaned == [calls |-> 0, registered |-> {}, failing |-> {},
               existed |-> {}, raised |-> FALSE]
OneCall == invocation = 1 /\ cleanup = NotCleaned

\* the assistant of src/main+csr.py is not running
NoStep == [pc |-> "none"]
NoAssistant == bot = NoStep /\ console = NoStep

Init == (InputsSequential \/ InputsParallel) /\ Constructed
             /\ NoParse /\ NoRender /\ OneCall /\ NoAssistant

InitOneSlide == InputsOneSlide /\ Constructed /\ NoParse /\ NoRender
                               /\ OneCall /\ NoAssistant

InitPool == (InputsSequential \/ InputsPool) /\ Constructed
             /\ NoParse /\ NoRender /\ OneCall /\ NoAssistant

\* ------------------------------------------------------------ coordinator
\* variant: the pool is used from ParallelThreshold slides on
Enter_ThresholdOffByOne ==
    /\ pc = "entry"
    /\ IF ~VIDEO_LIBS_AVAILABLE \/ N = 0
       THEN /\ pc' = "done"
            /\ retval' = "None"
            /\ UNCHANGED metrics
       ELSE /\ metrics' = [metrics EXCEPT !.total_slides = N]
            /\ pc' = IF parallel_processing /\ N >= ParallelThreshold
                     THEN "submit" ELSE "sequential"
            /\ UNCHANGED retval
    /\ UNCHANGED <<VIDEO_LIBS_AVAILABLE, slides, parallel_processing,
                   config, seq_i, executor, task, yielded, temp_files,
                   files, video_clips, concat_arg, exports, incs, env,
                   inversions, closed, progress, calls, script, parsed,
                   render_args, rendered, invocation, cleanup, bot, console>>

\* variant: the guard `if not slides' is missing
Enter_NoEmptyCheck ==
    /\ pc = "entry"
    /\ IF ~VIDEO_LIBS_AVAILABLE
       THEN /\ pc' = "done"
            /\ retval' = "None"
            /\ UNCHANGED metrics
       ELSE /\ metrics' = [metrics EXCEPT !.total_slides = N]
            /\ pc' = IF parallel_processing /\ N > ParallelThreshold
                     THEN "submit" ELSE "sequential"
            /\ UNCHANGED retval
    /\ UNCHANGED <<VIDEO_LIBS_AVAILABLE, slides, parallel_processing,
                   config, seq_i, executor, task, yielded, temp_files,
                   files, video_clips, concat_arg, exports, incs, env,
                   inversions, closed, progress, calls, script, parsed,
                   render_args, rendered, invocation, cleanup, bot, console>>

\* lines 957-982: the guards, the generator, total_slides, the path decision
Enter ==
    /\ pc = "entry"
    /\ IF ~VIDEO_LIBS_AVAILABLE \/ N = 0
       THEN /\ pc' = "done"
            /\ retval' = "None"
            /\ UNCHANGED metrics
       ELSE /\ metrics' = [metrics EXCEPT !.total_slides = N]
            /\ pc' = IF parallel_processing /\ N > ParallelThreshold
                     THEN "submit" ELSE "sequential"
            /\ UNCHANGED retval
    /\ UNCHANGED <<VIDEO_LIBS_AVAILABLE, slides, parallel_processing,
                   config, seq_i, executor, task, yielded, temp_files,
                   files, video_clips, concat_arg, exports, incs, env,
                   inversions, closed, progress, calls, script, parsed,
                   render_args, rendered, invocation, cleanup, bot, console>>

\* lines 986-992: the pool and one future per slide, queued in input order
Submit ==
    /\ pc = "submit"
    /\ executor' = Min(MaxWorkers, N)
    /\ task' = [i \in Idx |-> [task[i] EXCEPT !.pc = "queued"]]
    /\ pc' = "as_completed"
    /\ UNCHANGED <<VIDEO_LIBS_AVAILABLE, slides, parallel_processing,
                   config, seq_i, yielded, metrics, temp_files, files,
                   video_clips, concat_arg, exports, retval, incs, env,
                   inversions, closed, progress, calls, script, parsed,
                   render_args, rendered, invocation, cleanup, bot, console>>

\* variant: a thread per work item, whatever max_workers is
WorkerStart_NoLimit(i) ==
    /\ pc = "as_completed"
    /\ task[i].pc = "queued"
    /\ \A j \in Idx : j < i => task[j].pc # "queued"
    /\ task' = [task EXCEPT ![i].pc = "build", ![i].thread = "worker"]
    /\ calls' = [calls EXCEPT ![i].builder = @ + 1]
    /\ UNCHANGED <<VIDEO_LIBS_AVAILABLE, slides, parallel_processing,
                   config, pc, seq_i, executor, yielded, metrics,
                   temp_files, files, video_clips, concat_arg, exports,
                   retval, incs, env, inversions, closed, progress, script,
                   parsed, render_args, rendered, invocation, cleanup, bot,
                   console>>

\* a pool thread takes the oldest queued work item
WorkerStart(i) ==
    /\ pc = "as_completed"
    /\ task[i].pc = "queued"
    /\ \A j \in Idx : j < i => task[j].pc # "queued"
    /\ Cardinality(Executing) < executor
    /\ task' = [task EXCEPT ![i].pc = "build", ![i].thread = "worker"]
    /\ calls' = [calls EXCEPT ![i].builder = @ + 1]
    /\ UNCHANGED <<VIDEO_LIBS_AVAILABLE, slides, parallel_processing,
                   config, pc, seq_i, executor, yielded, metrics,
                   temp_files, files, video_clips, concat_arg, exports,
                   retval, incs, env, inversions, closed, progress, script,
                   parsed, render_args, rendered, invocation, cleanup, bot,
                   console>>

\* --------------------------------------------------------- slide builder
\* variant: a slide without narration is given up
BuiltClip_DropSilent(i, o, cfg) ==
    IF o.render # "ok" THEN Null
    ELSE IF o.tts >= 0 /\ o.attach
         THEN [slide |-> i, duration |-> OptimalDuration(o.tts, cfg),
               audio |-> TRUE]
    ELSE Null

\* the clip, or Null when the exception handler of line 470 is reached
BuiltClip(i, o, cfg) ==
    IF o.render # "ok" THEN Null
    ELSE IF o.tts >= 0 /\ o.attach
         THEN [slide |-> i, duration |-> OptimalDuration(o.tts, cfg),
               audio |-> TRUE]
    ELSE IF o.image
         THEN [slide |-> i, duration |-> cfg.min_slide_duration,
               audio |-> FALSE]
    ELSE Null

\* lines 405-439, 445-451, 458-463: everything up to the metrics update,
\* with _process_slide_audio (lines 382-399) and enhanced_text_to_speech
\* (lines 759-786): the raw speech file is left behind where the
\* synthesizer raises after creating it, the narration file is registered
\* only when the synthesizer returns its path
Compose(i) ==
    /\ task[i].pc = "build"
    /\ \E o \in env :
         LET png     == IF o.render = "raise" THEN {} ELSE {Png(i)}
             png_reg == IF o.render = "ok" THEN {Png(i)} ELSE {}
             raw     == IF o.synth \in {"save", "export"} THEN {Tts(i)}
                        ELSE {}
             mp3     == IF o.synth \in {"export", "ok"} THEN {Mp3(i)}
                        ELSE {}
             mp3_reg == IF o.synth = "ok" THEN {Mp3(i)} ELSE {}
             clip    == BuiltClip(i, o, config)
         IN /\ (o.synth = "empty") <=>
                  (o.render = "ok" /\ CleanText(slides[i + 1]) = <<>>)
            /\ files' = files \cup png \cup raw \cup mp3
            /\ temp_files' = temp_files \cup png_reg \cup mp3_reg
            /\ calls' = [calls EXCEPT
                            ![i].synth = IF o.synth # "none" THEN @ + 1
                                         ELSE @,
                            ![i].engine = IF o.synth \notin {"none", "empty"}
                                          THEN @ + 1 ELSE @]
            /\ task' = [task EXCEPT ![i].clip = clip,
                                    ![i].outcome = o,
                                    ![i].pc = IF clip = Null THEN "fail_rd"
                                              ELSE "dur_rd"]
    /\ UNCHANGED <<VIDEO_LIBS_AVAILABLE, slides, parallel_processing,
                   config, pc, seq_i, executor, yielded, metrics,
                   video_clips, concat_arg, exports, retval, incs, env,
                   inversions, closed, progress, script, parsed,
                   render_args, rendered, invocation, cleanup, bot, console>>

\* self.metrics.total_duration += duration   (lines 441, 453, 465)
DurationRead(i) ==
    /\ task[i].pc = "dur_rd"
    /\ task' = [task EXCEPT ![i].reg = metrics.total_duration,
                            ![i].pc = "dur_wr"]
    /\ UNCHANGED <<VIDEO_LIBS_AVAILABLE, slides, parallel_processing,
                   config, pc, seq_i, executor, yielded, metrics,
                   temp_files, files, video_clips, concat_arg, exports,
                   retval, incs, env, inversions, closed, progress, calls,
                   script, parsed, render_args, rendered, invocation,
                   cleanup, bot, console>>

\* variant: the configured minimum is added, not the duration of the clip
DurationWrite_Minimum(i) ==
    /\ task[i].pc = "dur_wr"
    /\ metrics' = [metrics EXCEPT
                     !.total_duration = task[i].reg + config.min_slide_duration]
    /\ task' = [task EXCEPT ![i].pc = "proc_rd", ![i].reg = 0]
    /\ UNCHANGED <<VIDEO_LIBS_AVAILABLE, slides, parallel_processing,
                   config, pc, seq_i, executor, yielded, temp_files, files,
                   video_clips, concat_arg, exports, retval, incs, env,
                   inversions, closed, progress, calls, script, parsed,
                   render_args, rendered, invocation, cleanup, bot, console>>

DurationWrite(i) ==
    /\ task[i].pc = "dur_wr"
    /\ metrics' = [metrics EXCEPT
                     !.total_duration = task[i].reg + task[i].clip.duration]
    /\ task' = [task EXCEPT ![i].pc = "proc_rd", ![i].reg = 0]
    /\ UNCHANGED <<VIDEO_LIBS_AVAILABLE, slides, parallel_processing,
                   config, pc, seq_i, executor, yielded, temp_files, files,
                   video_clips, concat_arg, exports, retval, incs, env,
                   inversions, closed, progress, calls, script, parsed,
                   render_args, rendered, invocation, cleanup, bot, console>>

\* variant: the counter is not read; the thread adds 1 to an empty register
ProcessedRead_NoRead(i) ==
    /\ task[i].pc = "proc_rd"
    /\ task' = [task EXCEPT ![i].reg = 0, ![i].pc = "proc_wr"]
    /\ UNCHANGED <<VIDEO_LIBS_AVAILABLE, slides, parallel_processing,
                   config, pc, seq_i, executor, yielded, metrics,
                   temp_files, files, video_clips, concat_arg, exports,
                   retval, incs, env, inversions, closed, progress, calls,
                   script, parsed, render_args, rendered, invocation,
                   cleanup, bot, console>>

\* self.metrics.processed_slides += 1; return clip   (lines 442-444 etc.)
ProcessedRead(i) ==
    /\ task[i].pc = "proc_rd"
    /\ task' = [task EXCEPT ![i].reg = metrics.processed_slides,
                            ![i].pc = "proc_wr"]
    /\ UNCHANGED <<VIDEO_LIBS_AVAILABLE, slides, parallel_processing,
                   config, pc, seq_i, executor, yielded, metrics,
                   temp_files, files, video_clips, concat_arg, exports,
                   retval, incs, env, inversions, closed, progress, calls,
                   script, parsed, render_args, rendered, invocation,
                   cleanup, bot, console>>

ProcessedWrite(i) ==
    /\ task[i].pc = "proc_wr"
    /\ metrics' = [metrics EXCEPT !.processed_slides = task[i].reg + 1]
    /\ incs' = [incs EXCEPT ![i].processed = @ + 1]
    /\ task' = [task EXCEPT ![i].pc = "returned", ![i].reg = 0]
    /\ UNCHANGED <<VIDEO_LIBS_AVAILABLE, slides, parallel_processing,
                   config, pc, seq_i, executor, yielded, temp_files, files,
                   video_clips, concat_arg, exports, retval, env,
                   inversions, closed, progress, calls, script, parsed,
                   render_args, rendered, invocation, cleanup, bot, console>>

\* except Exception: self.metrics.failed_slides += 1; return None
\* (lines 470-473)
FailedRead(i) ==
    /\ task[i].pc = "fail_rd"
    /\ task' = [task EXCEPT ![i].reg = metrics.failed_slides,
                            ![i].pc = "fail_wr"]
    /\ UNCHANGED <<VIDEO_LIBS_AVAILABLE, slides, parallel_processing,
                   config, pc, seq_i, executor, yielded, metrics,
                   temp_files, files, video_clips, concat_arg, exports,
                   retval, incs, env, inversions, closed, progress, calls,
                   script, parsed, render_args, rendered, invocation,
                   cleanup, bot, console>>

FailedWrite(i) ==
    /\ task[i].pc = "fail_wr"
    /\ metrics' = [metrics EXCEPT !.failed_slides = task[i].reg + 1]
    /\ incs' = [incs EXCEPT ![i].failed = @ + 1]
    /\ task' = [task EXCEPT ![i].pc = "returned", ![i].reg = 0]
    /\ UNCHANGED <<VIDEO_LIBS_AVAILABLE, slides, parallel_processing,
                   config, pc, seq_i, executor, yielded, temp_files, files,
                   video_clips, concat_arg, exports, retval, env,
                   inversions, closed, progress, calls, script, parsed,
                   render_args, rendered, invocation, cleanup, bot, console>>

\* ------------------------------------------------ coordinator, continued
\* variant: the coordinator counts a None result as a failure of its own
Collect_CountNull(i) ==
    /\ pc = "as_completed"
    /\ task[i].pc = "returned"
    /\ i \notin yielded
    /\ yielded' = yielded \cup {i}
    /\ IF task[i].clip # Null
       THEN /\ video_clips' = Append(video_clips, <<i, task[i].clip>>)
            /\ UNCHANGED <<metrics, incs>>
       ELSE /\ metrics' = [metrics EXCEPT !.failed_slides = @ + 1]
            /\ incs' = [incs EXCEPT ![i].failed = @ + 1]
            /\ UNCHANGED video_clips
    /\ inversions' = (inversions \/ (task[i].clip # Null /\
                          \E k \in 1 .. Len(video_clips) : video_clips[k][1] > i))
    /\ progress' = Len(video_clips')
    /\ UNCHANGED <<VIDEO_LIBS_AVAILABLE, slides, parallel_processing,
                   config, pc, seq_i, executor, task, temp_files, files,
                   concat_arg, exports, retval, env, closed, calls, script,
                   parsed, render_args, rendered, invocation, cleanup, bot,
                   console>>

\* variant: the report counts the slides that are still to come
Collect_ReportRemaining(i) ==
    /\ pc = "as_completed"
    /\ task[i].pc = "returned"
    /\ i \notin yielded
    /\ yielded' = yielded \cup {i}
    /\ video_clips' = IF task[i].clip # Null
                      THEN Append(video_clips, <<i, task[i].clip>>)
                      ELSE video_clips
    /\ inversions' = (inversions \/ (task[i].clip # Null /\
                          \E k \in 1 .. Len(video_clips) : video_clips[k][1] > i))
    /\ progress' = N - Len(video_clips')
    /\ UNCHANGED <<VIDEO_LIBS_AVAILABLE, slides, parallel_processing,
                   config, pc, seq_i, executor, task, metrics, temp_files,
                   files, concat_arg, exports, retval, incs, env, closed,
                   calls, script, parsed, render_args, rendered, invocation,
                   cleanup, bot, console>>

\* one iteration of `for future in as_completed(...)' (lines 994-1007);
\* future.result() re-raises what the builder raised, and the builder
\* catches every Exception, so the handler of line 1005 has nothing to catch
Collect(i) ==
    /\ pc = "as_completed"
    /\ task[i].pc = "returned"
    /\ i \notin yielded
    /\ yielded' = yielded \cup {i}
    /\ video_clips' = IF task[i].clip # Null
                      THEN Append(video_clips, <<i, task[i].clip>>)
                      ELSE video_clips
    /\ inversions' = (inversions \/ (task[i].clip # Null /\
                          \E k \in 1 .. Len(video_clips) : video_clips[k][1] > i))
    /\ progress' = Len(video_clips')
    /\ UNCHANGED <<VIDEO_LIBS_AVAILABLE, slides, parallel_processing,
                   config, pc, seq_i, executor, task, metrics, temp_files,
                   files, concat_arg, exports, retval, incs, env, closed,
                   calls, script, parsed, render_args, rendered, invocation,
                   cleanup, bot, console>>

\* variant: the coordinator leaves the as_completed loop, and the pool is
\* not joined, as soon as one future has been collected
SortClips_NoJoin ==
    /\ pc = "as_completed"
    /\ yielded # {}
    /\ video_clips' = StripIdx(SortByIdx(video_clips))
    /\ pc' = "check"
    /\ UNCHANGED <<VIDEO_LIBS_AVAILABLE, slides, parallel_processing,
                   config, seq_i, executor, task, yielded, metrics,
                   temp_files, files, concat_arg, exports, retval, incs,
                   env, inversions, closed, progress, calls, script, parsed,
                   render_args, rendered, invocation, cleanup, bot, console>>

\* the loop and the with-block end; lines 1009-1011
SortClips ==
    /\ pc = "as_completed"
    /\ yielded = Idx
    /\ video_clips' = StripIdx(SortByIdx(video_clips))
    /\ pc' = "check"
    /\ UNCHANGED <<VIDEO_LIBS_AVAILABLE, slides, parallel_processing,
                   config, seq_i, executor, task, yielded, metrics,
                   temp_files, files, concat_arg, exports, retval, incs,
                   env, inversions, closed, progress, calls, script, parsed,
                   render_args, rendered, invocation, cleanup, bot, console>>

\* lines 1015-1021: the calling thread enters the builder for slide i
SequentialCall ==
    /\ pc = "sequential"
    /\ seq_i < N
    /\ task[seq_i].pc = "idle"
    /\ task' = [task EXCEPT ![seq_i].pc = "build", ![seq_i].thread = "main"]
    /\ pc' = "in_builder"
    /\ progress' = seq_i
    /\ calls' = [calls EXCEPT ![seq_i].builder = @ + 1]
    /\ UNCHANGED <<VIDEO_LIBS_AVAILABLE, slides, parallel_processing,
                   config, seq_i, executor, yielded, metrics, temp_files,
                   files, video_clips, concat_arg, exports, retval, incs,
                   env, inversions, closed, script, parsed, render_args,
                   rendered, invocation, cleanup, bot, console>>

\* variant: a None result is appended like a clip
SequentialReturn_KeepNull ==
    /\ pc = "in_builder"
    /\ task[seq_i].pc = "returned"
    /\ video_clips' = Append(video_clips, task[seq_i].clip)
    /\ seq_i' = seq_i + 1
    /\ pc' = IF seq_i + 1 < N THEN "sequential" ELSE "check"
    /\ UNCHANGED <<VIDEO_LIBS_AVAILABLE, slides, parallel_processing,
                   config, executor, task, yielded, metrics, temp_files,
                   files, concat_arg, exports, retval, incs, env,
                   inversions, closed, progress, calls, script, parsed,
                   render_args, rendered, invocation, cleanup, bot, console>>

\* variant: a slide whose builder returned None is built again
SequentialReturn_Retry ==
    /\ pc = "in_builder"
    /\ task[seq_i].pc = "returned"
    /\ IF task[seq_i].clip # Null
       THEN /\ video_clips' = Append(video_clips, task[seq_i].clip)
            /\ seq_i' = seq_i + 1
            /\ pc' = IF seq_i + 1 < N THEN "sequential" ELSE "check"
            /\ UNCHANGED task
       ELSE /\ task' = [task EXCEPT ![seq_i] = NewTask]
            /\ pc' = "sequential"
            /\ UNCHANGED <<video_clips, seq_i>>
    /\ UNCHANGED <<VIDEO_LIBS_AVAILABLE, slides, parallel_processing,
                   config, executor, yielded, metrics, temp_files, files,
                   concat_arg, exports, retval, incs, env, inversions,
                   closed, progress, calls, script, parsed, render_args,
                   rendered, invocation, cleanup, bot, console>>

\* lines 1023-1024 and the loop test
SequentialReturn ==
    /\ pc = "in_builder"
    /\ task[seq_i].pc = "returned"
    /\ video_clips' = IF task[seq_i].clip # Null
                      THEN Append(video_clips, task[seq_i].clip)
                      ELSE video_clips
    /\ seq_i' = seq_i + 1
    /\ pc' = IF seq_i + 1 < N THEN "sequential" ELSE "check"
    /\ UNCHANGED <<VIDEO_LIBS_AVAILABLE, slides, parallel_processing,
                   config, executor, task, yielded, metrics, temp_files,
                   files, concat_arg, exports, retval, incs, env,
                   inversions, closed, progress, calls, script, parsed,
                   render_args, rendered, invocation, cleanup, bot, console>>

\* _cleanup_temp_files (lines 115-123): unlink what exists, clear the list
CleanedFiles == files \ temp_files

\* variant: the test `if not video_clips' is missing
CheckClips_NoCheck ==
    /\ pc = "check"
    /\ pc' = "concat"
    /\ UNCHANGED <<VIDEO_LIBS_AVAILABLE, slides, parallel_processing,
                   config, seq_i, executor, task, yielded, metrics,
                   temp_files, files, video_clips, concat_arg, exports,
                   retval, incs, env, inversions, closed, progress, calls,
                   script, parsed, render_args, rendered, invocation,
                   cleanup, bot, console>>

\* lines 1026-1029
CheckClips ==
    /\ pc = "check"
    /\ IF video_clips = <<>>
       THEN pc' = "done" /\ retval' = "None"
       ELSE pc' = "concat" /\ UNCHANGED retval
    /\ UNCHANGED <<VIDEO_LIBS_AVAILABLE, slides, parallel_processing,
                   config, seq_i, executor, task, yielded, metrics,
                   temp_files, files, video_clips, concat_arg, exports,
                   incs, env, inversions, closed, progress, calls, script,
                   parsed, render_args, rendered, invocation, cleanup, bot,
                   console>>

\* line 1034, and the handler of lines 1091-1097 when it raises
Concatenate ==
    /\ pc = "concat"
    /\ concat_arg' = Append(concat_arg, video_clips)
    /\ \E ok \in BOOLEAN :
         IF ok
         THEN /\ pc' = "export"
              /\ UNCHANGED <<files, temp_files, retval>>
         ELSE /\ files' = CleanedFiles
              /\ temp_files' = {}
              /\ retval' = "None"
              /\ pc' = "done"
    /\ UNCHANGED <<VIDEO_LIBS_AVAILABLE, slides, parallel_processing,
                   config, seq_i, executor, task, yielded, metrics,
                   video_clips, exports, incs, env, inversions, closed,
                   progress, calls, script, parsed, render_args, rendered,
                   invocation, cleanup, bot, console>>

\* lines 1069-1074: final_video.close(), and for each clip of the list
\* clip.audio.close() when it has audio, then clip.close()
ClosedClips(clips) ==
    {<<"clip", clips[k].slide>> : k \in 1 .. Len(clips)} \cup
    {<<"audio", clips[k].slide>> : k \in {j \in 1 .. Len(clips) : clips[j].audio}}

\* variant: the exporter overwrites a field of the configuration
Export_WritesConfig ==
    /\ pc = "export"
    /\ exports' = exports + 1
    /\ config' = [config EXCEPT
                    !.max_slide_duration = config.min_slide_duration]
    /\ \E ok \in BOOLEAN :
         /\ files' = (files \cup {Mp4}) \ temp_files
         /\ temp_files' = {}
         /\ retval' = IF ok THEN "path" ELSE "None"
         /\ closed' = IF ok THEN ClosedClips(video_clips) ELSE closed
         /\ pc' = "done"
    /\ UNCHANGED <<VIDEO_LIBS_AVAILABLE, slides, parallel_processing, seq_i,
                   executor, task, yielded, metrics, video_clips,
                   concat_arg, incs, env, inversions, progress, calls,
                   script, parsed, render_args, rendered, invocation,
                   cleanup, bot, console>>

\* lines 1045-1089, and the handler of lines 1091-1097 when the encoder raises
Export ==
    /\ pc = "export"
    /\ exports' = exports + 1
    /\ \E ok \in BOOLEAN :
         /\ files' = (files \cup {Mp4}) \ temp_files
         /\ temp_files' = {}
         /\ retval' = IF ok THEN "path" ELSE "None"
         /\ closed' = IF ok THEN ClosedClips(video_clips) ELSE closed
         /\ pc' = "done"
    /\ UNCHANGED <<VIDEO_LIBS_AVAILABLE, slides, parallel_processing,
                   config, seq_i, executor, task, yielded, metrics,
                   video_clips, concat_arg, incs, env, inversions, progress,
                   calls, script, parsed, render_args, rendered, invocation,
                   cleanup, bot, console>>

Next ==
    \/ Enter
    \/ Submit
    \/ \E i \in Idx : WorkerStart(i)
    \/ \E i \in Idx : Compose(i)
    \/ \E i \in Idx : DurationRead(i)
    \/ \E i \in Idx : DurationWrite(i)
    \/ \E i \in Idx : ProcessedRead(i)
    \/ \E i \in Idx : ProcessedWrite(i)
    \/ \E i \in Idx : FailedRead(i)
    \/ \E i \in Idx : FailedWrite(i)
    \/ \E i \in Idx : Collect(i)
    \/ SortClips
    \/ SequentialCall
    \/ SequentialReturn
    \/ CheckClips
    \/ Concatenate
    \/ Export

\* the actions of a run that does not take the parallel path
NextSequential ==
    \/ Enter
    \/ SequentialCall
    \/ \E i \in Idx : Compose(i)
    \/ \E i \in Idx : DurationRead(i)
    \/ \E i \in Idx : DurationWrite(i)
    \/ \E i \in Idx : ProcessedRead(i)
    \/ \E i \in Idx : ProcessedWrite(i)
    \/ \E i \in Idx : FailedRead(i)
    \/ \E i \in Idx : FailedWrite(i)
    \/ SequentialReturn
    \/ CheckClips
    \/ Concatenate
    \/ Export

Spec == Init /\ [][Next]_vars

SpecPool == InitPool /\ [][Next]_vars

SpecOneSlide == InitOneSlide /\ [][NextSequential]_vars

\* ------------------------------------------------------- repeated calls
\* Calls that end at a guard or take the sequential path with few slides.
InputsRepeat ==
    /\ VIDEO_LIBS_AVAILABLE \in BOOLEAN
    /\ \E n \in 0 .. MaxRepeatSlides : slides = [k \in 1 .. n |-> Spoken]
    /\ parallel_processing \in BOOLEAN
    /\ config = VideoConfig(1, MaxConfigDuration)
    /\ env = {o \in Outcomes : /\ o.tts \in {-1, MaxNarration}
                               /\ o.synth \in {"none", "engine", "ok"}}

InitRepeat == InputsRepeat /\ Constructed /\ NoParse /\ NoRender
                           /\ OneCall /\ NoAssistant

\* a file an earlier call has left on disk; the names of temporary files
\* are unique, so a later call never creates a file of the same name
Old(f) == <<"old", f[1], f[2]>>

\* variant: the generator is a module-level object that every call reuses
NewCall_KeepGenerator ==
    /\ pc = "done"
    /\ invocation < MaxRuns
    /\ invocation' = invocation + 1
    /\ \E n \in 0 .. MaxRepeatSlides :
         /\ slides' = [k \in 1 .. n |-> Spoken]
         /\ task' = [i \in 0 .. n - 1 |-> NewTask]
         /\ incs' = [i \in 0 .. n - 1 |-> [processed |-> 0, failed |-> 0]]
         /\ calls' = [i \in 0 .. n - 1 |->
                         [builder |-> 0, synth |-> 0, engine |-> 0]]
    /\ parallel_processing' \in BOOLEAN
    /\ config' = VideoConfig(1, MaxConfigDuration)
    /\ UNCHANGED <<metrics, temp_files>>
    /\ files' = {IF f[1] = "old" THEN f ELSE Old(f) : f \in files}
    /\ pc' = "entry"
    /\ seq_i' = 0
    /\ executor' = 0
    /\ yielded' = {}
    /\ video_clips' = <<>>
    /\ concat_arg' = <<>>
    /\ exports' = 0
    /\ retval' = "running"
    /\ inversions' = FALSE
    /\ closed' = {}
    /\ progress' = -1
    /\ UNCHANGED <<VIDEO_LIBS_AVAILABLE, env, script, parsed, render_args,
                   rendered, cleanup, bot, console>>

\* the next call of create_professional_placement_video, with arguments of
\* its own, after the previous one has returned: new locals, and line 968
\* constructs a new generator, whose __init__ (lines 94-98) makes a new
\* SlideMetrics and an empty temp_files list.  What the previous call left
\* on disk stays there.
NewCall ==
    /\ pc = "done"
    /\ invocation < MaxRuns
    /\ invocation' = invocation + 1
    /\ \E n \in 0 .. MaxRepeatSlides :
         /\ slides' = [k \in 1 .. n |-> Spoken]
         /\ task' = [i \in 0 .. n - 1 |-> NewTask]
         /\ incs' = [i \in 0 .. n - 1 |-> [processed |-> 0, failed |-> 0]]
         /\ calls' = [i \in 0 .. n - 1 |->
                         [builder |-> 0, synth |-> 0, engine |-> 0]]
    /\ parallel_processing' \in BOOLEAN
    /\ config' = VideoConfig(1, MaxConfigDuration)
    /\ metrics' = SlideMetrics
    /\ temp_files' = {}
    /\ files' = {IF f[1] = "old" THEN f ELSE Old(f) : f \in files}
    /\ pc' = "entry"
    /\ seq_i' = 0
    /\ executor' = 0
    /\ yielded' = {}
    /\ video_clips' = <<>>
    /\ concat_arg' = <<>>
    /\ exports' = 0
    /\ retval' = "running"
    /\ inversions' = FALSE
    /\ closed' = {}
    /\ progress' = -1
    /\ UNCHANGED <<VIDEO_LIBS_AVAILABLE, env, script, parsed, render_args,
                   rendered, cleanup, bot, console>>

NextRepeat == NextSequential \/ NewCall

SpecRepeat == InitRepeat /\ [][NextRepeat]_vars

\* ----------------------------------------------- parse_script_into_slides
\* A script is a text; the header opening `[SLIDE n:' is one token.
Header == "[SLIDE 1:"

\* The lines of a script: headers with a title, with a blank title, with
\* no title and without the closing bracket, body lines, the narrator
\* prefix alone, a blank line and an empty line.
Lines ==
    {<<Header, "a", "]">>, <<Header, "b", "]">>, <<Header, " ", "]">>,
     <<Header, "]">>, <<Header, "a">>, <<"a">>, <<"b">>, <<"Narrator:">>,
     <<" ">>, <<>>}

\* the lines of a script joined by newlines
RECURSIVE Join(_)
Join(ls) ==
    IF ls = <<>> THEN <<>>
    ELSE IF Len(ls) = 1 THEN ls[1]
    ELSE ls[1] \o <<"\n">> \o Join(Tail(ls))

\* `(.*?)\]\n': the first q >= from with "]" at q and a newline at q + 1,
\* 0 when there is none
RECURSIVE TitleEnd(_, _)
TitleEnd(s, q) ==
    IF q + 1 > Len(s) THEN 0
    ELSE IF s[q] = "]" /\ s[q + 1] = "\n" THEN q
    ELSE TitleEnd(s, q + 1)

\* `(.*?)(?=\n\[SLIDE|\Z)': the first e >= from that is past the end of
\* the script or has a newline at e and a header opening at e + 1
RECURSIVE BodyEnd(_, _)
BodyEnd(s, e) ==
    IF e > Len(s) THEN e
    ELSE IF s[e] = "\n" /\ e + 1 <= Len(s) /\ s[e + 1] = Header THEN e
    ELSE BodyEnd(s, e + 1)

\* re.findall(pattern, script, re.DOTALL) from position p on: the pairs
\* of groups of the non-overlapping matches, leftmost first; `\s*' takes
\* the blanks that follow the colon
RECURSIVE FindAll(_, _)
FindAll(s, p) ==
    IF p > Len(s) THEN <<>>
    ELSE IF s[p] # Header THEN FindAll(s, p + 1)
    ELSE LET q == TitleEnd(s, p + 1)
         IN IF q = 0 THEN FindAll(s, p + 1)
            ELSE LET e == BodyEnd(s, q + 2)
                 IN << <<LStrip(SubSeq(s, p + 1, q - 1)),
                         SubSeq(s, q + 2, e - 1)>> >> \o FindAll(s, e)

\* match[1].strip().replace('\n', ' ').replace('Narrator:', '')
\*         .replace('narrator:', '').strip()
SlideContent(body) ==
    LET trimmed == Strip(body)
        spaced  == [k \in 1 .. Len(trimmed) |->
                       IF trimmed[k] = "\n" THEN " " ELSE trimmed[k]]
    IN Strip(Remove(Remove(spaced, "Narrator:"), "narrator:"))

\* variant: the test `if title and content' is missing
MakeSlide_NoFilter(title, content) ==
    <<[title |-> title, content |-> content]>>

\* if title and content: slides.append({"title": ..., "content": ...})
MakeSlide(title, content) ==
    IF title # <<>> /\ content # <<>>
    THEN <<[title |-> title, content |-> content]>>
    ELSE <<>>

\* for match in matches: ...
RECURSIVE SlidesOf(_)
SlidesOf(matches) ==
    IF matches = <<>> THEN <<>>
    ELSE MakeSlide(Strip(Head(matches)[1]), SlideContent(Head(matches)[2]))
         \o SlidesOf(Tail(matches))

parse_script_into_slides(s) == SlidesOf(FindAll(s, 1))

\* no run of the pipeline
NoRun ==
    /\ VIDEO_LIBS_AVAILABLE = FALSE
    /\ slides = <<>>
    /\ parallel_processing = FALSE
    /\ config = VideoConfig(1, MaxConfigDuration)
    /\ env = {}

InitParse ==
    /\ NoRun /\ Constructed /\ NoRender /\ OneCall /\ NoAssistant
    /\ \E n \in 0 .. MaxLines :
          \E ls \in [1 .. n -> Lines] : script = Join(ls)
    /\ parsed = NotParsed

ParseScript ==
    /\ ~parsed.done
    /\ parsed' = [done |-> TRUE, slides |-> parse_script_into_slides(script)]
    /\ UNCHANGED <<VIDEO_LIBS_AVAILABLE, slides, parallel_processing,
                   config, pc, seq_i, executor, task, yielded, metrics,
                   temp_files, files, video_clips, concat_arg, exports,
                   retval, env, inversions, incs, closed, progress, calls,
                   script, render_args, rendered, invocation, cleanup, bot,
                   console>>

NextParse == ParseScript

SpecParse == InitParse /\ [][NextParse]_vars

\* -------------------------------------------------------- slide renderers
\* _create_enhanced_slide, which the builder calls, and
\* create_interactive_slide.
Renderers == {"_create_enhanced_slide", "create_interactive_slide"}
Resolutions == {<<1080, 1920>>, <<1920, 1080>>}
Templates == {"corporate", "modern", "minimalist", "Modern", "unknown"}

\* company_logo: None, the path of an image file, a path that does not
\* exist, a PIL image
Logos == {"None", "path", "missing", "image"}

\* the sub-steps in which a library call can raise: painting the
\* background and the footer, pasting the logo, loading a font, laying
\* out the text, the visual effects
Substeps == {"paint", "logo", "font", "layout", "effects"}

RenderArgs ==
    {a \in [fn           : Renderers,
            title        : {<<>>, <<"a">>},
            content      : {<<>>, <<"a">>},
            template     : Templates,
            slide_num    : 1 .. MaxTotal,
            total_slides : 1 .. MaxTotal,
            company_logo : Logos,
            resolution   : Resolutions,
            fails        : SUBSET Substeps] :
        a.slide_num <= a.total_slides}

Raised == [result |-> "raised", size |-> <<0, 0>>, scheme |-> "none"]

InitRender ==
    /\ NoRun /\ Constructed /\ NoParse /\ OneCall /\ NoAssistant
    /\ render_args \in RenderArgs
    /\ rendered = NotRendered

\* lines 125-157.  _add_company_logo, _add_slide_content (with _get_font
\* and _wrap_text) and _apply_visual_effects catch what they raise; the
\* template painters and _add_slide_metadata do not.
CreateEnhancedSlide ==
    /\ render_args.fn = "_create_enhanced_slide"
    /\ rendered = NotRendered
    /\ rendered' =
          IF "paint" \in render_args.fails THEN Raised
          ELSE [result |-> "image",
                size   |-> render_args.resolution,
                scheme |-> IF render_args.template \in
                                {"corporate", "modern", "minimalist"}
                           THEN render_args.template ELSE "default"]
    /\ UNCHANGED <<VIDEO_LIBS_AVAILABLE, slides, parallel_processing,
                   config, pc, seq_i, executor, task, yielded, metrics,
                   temp_files, files, video_clips, concat_arg, exports,
                   retval, env, inversions, incs, closed, progress, calls,
                   script, parsed, render_args, invocation, cleanup, bot,
                   console>>

\* lines 663-757.  Only the font load is in a try block (IOError: the
\* default font); company_logo.resize is called on whatever the logo is
\* when slide_num is 1, and a path has no resize; the image is always
\* 1080 x 1920.
CreateInteractiveSlide ==
    /\ render_args.fn = "create_interactive_slide"
    /\ rendered = NotRendered
    /\ LET a == render_args
           logo_raises ==
               /\ a.slide_num = 1
               /\ a.company_logo # "None"
               /\ (a.company_logo # "image" \/ "logo" \in a.fails)
       IN rendered' =
             IF logo_raises \/ "layout" \in a.fails \/ "paint" \in a.fails
             THEN Raised
             ELSE [result |-> "image",
                   size   |-> <<1080, 1920>>,
                   scheme |-> IF a.template \in
                                   {"Tech-Forward", "Professional",
                                    "Modern", "Colorful"}
                              THEN a.template ELSE "Tech-Forward"]
    /\ UNCHANGED <<VIDEO_LIBS_AVAILABLE, slides, parallel_processing,
                   config, pc, seq_i, executor, task, yielded, metrics,
                   temp_files, files, video_clips, concat_arg, exports,
                   retval, env, inversions, incs, closed, progress, calls,
                   script, parsed, render_args, invocation, cleanup, bot,
                   console>>

NextRender ==
    \/ CreateEnhancedSlide
    \/ CreateInteractiveSlide

SpecRender == InitRender /\ [][NextRender]_vars

\* --------------------------------------------------- _cleanup_temp_files
\* the temporary files of the slides of a small run
CleanupPaths ==
    {Png(i) : i \in 0 .. MaxCleanupSlides - 1} \cup
    {Mp3(i) : i \in 0 .. MaxCleanupSlides - 1}

\* a generator with any registry, over a disk with any of the files
InitCleanup ==
    /\ NoRun /\ NoParse /\ NoRender /\ NoAssistant /\ OneCall
    /\ temp_files \in SUBSET CleanupPaths
    /\ files \in SUBSET CleanupPaths
    /\ pc = "cleanup"
    /\ seq_i = 0
    /\ executor = 0
    /\ task = [i \in Idx |-> NewTask]
    /\ yielded = {}
    /\ metrics = SlideMetrics
    /\ video_clips = <<>>
    /\ concat_arg = <<>>
    /\ exports = 0
    /\ retval = "running"
    /\ inversions = FALSE
    /\ incs = [i \in Idx |-> [processed |-> 0, failed |-> 0]]
    /\ closed = {}
    /\ progress = -1
    /\ calls = [i \in Idx |-> [builder |-> 0, synth |-> 0, engine |-> 0]]

\* what is on disk after the loop of lines 117-122 over the registry, when
\* os.unlink raises for the paths of `failing'
Unlinked(fs, registered, failing) == fs \ (registered \ failing)

\* variant: no try around os.unlink: the first deletion that raises ends
\* the method, before the remaining paths and before clear()
CleanupTempFiles_NoTry ==
    /\ pc = "cleanup"
    /\ cleanup.calls < 2
    /\ \E failing \in SUBSET (temp_files \cap files) :
         IF failing = {}
         THEN /\ files' = Unlinked(files, temp_files, {})
              /\ temp_files' = {}
              /\ cleanup' = [calls |-> cleanup.calls + 1,
                             registered |-> temp_files, failing |-> {},
                             existed |-> files, raised |-> FALSE]
         ELSE /\ \E deleted \in SUBSET (temp_files \ failing) :
                    files' = files \ deleted
              /\ temp_files' = temp_files
              /\ cleanup' = [calls |-> cleanup.calls + 1,
                             registered |-> temp_files,
                             failing |-> failing,
                             existed |-> files, raised |-> TRUE]
    /\ UNCHANGED <<VIDEO_LIBS_AVAILABLE, slides, parallel_processing,
                   config, pc, seq_i, executor, task, yielded, metrics,
                   video_clips, concat_arg, exports, retval, incs, env,
                   inversions, closed, progress, calls, script, parsed,
                   render_args, rendered, invocation, bot, console>>

\* lines 115-123, one call.  For each registered path: os.path.exists
\* (which does not raise), then os.unlink, which can raise for a file that
\* exists; the handler of line 121 logs a warning and the loop goes on.
\* Then self.temp_files.clear().
CleanupTempFiles ==
    /\ pc = "cleanup"
    /\ cleanup.calls < 2
    /\ \E failing \in SUBSET (temp_files \cap files) :
         /\ files' = Unlinked(files, temp_files, failing)
         /\ cleanup' = [calls |-> cleanup.calls + 1,
                        registered |-> temp_files, failing |-> failing,
                        existed |-> files, raised |-> FALSE]
    /\ temp_files' = {}
    /\ UNCHANGED <<VIDEO_LIBS_AVAILABLE, slides, parallel_processing,
                   config, pc, seq_i, executor, task, yielded, metrics,
                   video_clips, concat_arg, exports, retval, incs, env,
                   inversions, closed, progress, calls, script, parsed,
                   render_args, rendered, invocation, bot, console>>

NextCleanup == CleanupTempFiles

SpecCleanup == InitCleanup /\ [][NextCleanup]_vars

\* ------------------------------------- src/main+csr.py: the research bot
\* EnhancedCompanyResearchBot.process_email_and_generate_whatsapp_link and
\* the methods it calls.  A line of the Gemini reply, a company name and a
\* role are sequences of tokens; a link is a string.

Unknown == <<"Unknown">>

\* the lines Gemini can answer with: well-formed ones, with blanks around
\* them, with an empty value, with a key in another case, and free text
ReplyLines ==
    { <<"COMPANY", ":", " ", "Acme">>,
      <<" ", "COMPANY", ":", "Unknown", " ">>,
      <<"COMPANY", ":">>,
      <<"Company", ":", "Acme">>,
      <<"ROLE", ":", " ", "Software", " ", "Engineer">>,
      <<"ROLE", ":", "Chef">>,
      <<"Sorry">> }

\* call_gemini_api (lines 449-480): None when the request fails or has no
\* candidate, otherwise the text, here as its lines
NoReply == [none |-> TRUE, lines |-> <<>>]

StartsWith(l, p) == Len(l) >= Len(p) /\ SubSeq(l, 1, Len(p)) = p

\* line.split(':', 1)[1].strip()
AfterColon(l) ==
    LET k == CHOOSE j \in 1 .. Len(l) :
                 l[j] = ":" /\ \A h \in 1 .. j - 1 : l[h] # ":"
    IN  Strip(SubSeq(l, k + 1, Len(l)))

\* the loop of lines 440-445 over the lines, from the last one back
RECURSIVE ParseReply(_, _)
ParseReply(lines, k) ==
    IF k = 0 THEN <<Unknown, Unknown>>
    ELSE LET before == ParseReply(lines, k - 1)
             line == Strip(lines[k])
         IN  IF StartsWith(line, <<"COMPANY", ":">>)
             THEN <<AfterColon(line), before[2]>>
             ELSE IF StartsWith(line, <<"ROLE", ":">>)
             THEN <<before[1], AfterColon(line)>>
             ELSE before

\* lines 414-447; `not response' holds for None and for the empty text
extract_company_and_role(reply) ==
    IF reply.none \/ Join(reply.lines) = <<>>
    THEN <<Unknown, Unknown>>
    ELSE ParseReply(reply.lines, Len(reply.lines))

\* str.lower() on the words of a role
Lower(tok) == IF tok = "Software" THEN "software"
              ELSE IF tok = "Engineer" THEN "engineer"
              ELSE IF tok = "Chef" THEN "chef"
              ELSE IF tok = "Unknown" THEN "unknown"
              ELSE tok

\* the keys of role_queries (lines 301-307)
RoleKeys == {"software", "data", "frontend", "backend", "intern"}

\* lines 310-315: some key occurs in role.lower()
HasMatchingQuery(role) == \E k \in 1 .. Len(role) : Lower(role[k]) \in RoleKeys

fallback_links == <<"glassdoor.com/Interview", "geeksforgeeks.org/company-preparation",
                    "leetcode.com/discuss/interview-experience">>

default_resources == <<"geeksforgeeks.org/data-structures",
                       "geeksforgeeks.org/fundamentals-of-algorithms",
                       "geeksforgeeks.org/system-design-tutorial",
                       "geeksforgeeks.org/behavioral-interview-questions">>

\* links a search can return; one of them is also a fallback link
SearchLinks == {"r1", "r2", "r3", fallback_links[1]}

\* what search_web_with_validation(query, num) can return (lines 83-110):
\* the items of the answer whose link validates, at most num of them, or
\* nothing when the request fails
SearchResults(num) == UNION {[1 .. n -> SearchLinks] : n \in 0 .. num}

\* `if result['link'] not in all_links: all_links.append(result['link'])'
RECURSIVE AppendNew(_, _)
AppendNew(all, results) ==
    IF results = <<>> THEN all
    ELSE AppendNew(IF \E k \in 1 .. Len(all) : all[k] = Head(results)
                   THEN all ELSE Append(all, Head(results)),
                   Tail(results))

\* the loop of lines 534-539 over the queries
RECURSIVE AllLinks(_)
AllLinks(searches) ==
    IF searches = <<>> THEN <<>>
    ELSE AppendNew(AllLinks(SubSeq(searches, 1, Len(searches) - 1)),
                   searches[Len(searches)])

Prefix(s, n) == SubSeq(s, 1, Min(n, Len(s)))

\* variant: the definition of lines 254-287, which the class body replaces:
\* up to 4 links found, and general links only when none was found
find_interview_resources_Earlier(searches) ==
    LET interview_links == Prefix(AllLinks(searches), 4)
    IN  IF interview_links = <<>>
        THEN fallback_links \o <<"interviewbit.com/interview-experiences">>
        ELSE interview_links

\* lines 522-550, given what the three searches returned:
\* final_links = all_links[:3] + fallback_links; final_links[:4]
find_interview_resources(searches) ==
    Prefix(Prefix(AllLinks(searches), 3) \o fallback_links, 4)

\* the answers of the search of line 319, in rank order
PrepRanking == <<"p1", "p2", "p3", "p4">>

\* [r['link'] for r in results if self.validate_url(r['link'])]
RECURSIVE Validated(_, _)
Validated(results, valid) ==
    IF results = <<>> THEN <<>>
    ELSE IF Head(results) \in valid
         THEN <<Head(results)>> \o Validated(Tail(results), valid)
         ELSE Validated(Tail(results), valid)

\* lines 289-326, given the links of the search that validate a second time
get_role_preparation_resources(role, verified_links) ==
    IF HasMatchingQuery(role) /\ Len(verified_links) >= 2
    THEN Prefix(verified_links, 4)
    ELSE default_resources

\* lines 328-412: the parts of the message that come from the two lists;
\* prep_resources[0] .. prep_resources[3] are read without a test
generate_final_response_enhanced(links, prep_resources) ==
    [interview |-> <<IF Len(links) > 0 THEN links[1] ELSE "glassdoor.com",
                     IF Len(links) > 1 THEN links[2] ELSE fallback_links[2],
                     IF Len(links) > 2 THEN links[3] ELSE fallback_links[3]>>,
     preparation |-> SubSeq(prep_resources, 1, 4)]

NoResponse == [interview |-> <<>>, preparation |-> <<>>]

BotStart(reply) ==
    [pc |-> "extract", reply |-> reply, company_name |-> <<>>, role |-> <<>>,
     all_links |-> <<>>, interview_links |-> <<>>, prep_resources |-> <<>>,
     steps |-> <<>>, error |-> FALSE, response |-> NoResponse,
     whatsapp_link |-> ""]

InitBot ==
    /\ NoRun /\ Constructed /\ NoParse /\ NoRender /\ OneCall
    /\ console = NoStep
    /\ \/ bot = BotStart(NoReply)
       \/ \E n \in 0 .. MaxReplyLines : \E ls \in [1 .. n -> ReplyLines] :
             bot = BotStart([none |-> FALSE, lines |-> ls])

BotFrame ==
    UNCHANGED <<VIDEO_LIBS_AVAILABLE, slides, parallel_processing, config,
                pc, seq_i, executor, task, yielded, metrics, temp_files,
                files, video_clips, concat_arg, exports, retval, env,
                inversions, incs, closed, progress, calls, script, parsed,
                render_args, rendered, invocation, cleanup, console>>

\* variant: the test `company_name == "Unknown"' is missing
BotExtract_NoGuard ==
    /\ bot.pc = "extract"
    /\ LET e == extract_company_and_role(bot.reply)
       IN  bot' = [bot EXCEPT !.company_name = e[1], !.role = e[2],
                              !.reply = NoReply,
                              !.steps = Append(@, "extract"),
                              !.pc = "research"]
    /\ BotFrame

\* lines 494-500: step 1 and the early return; the reply is a local of
\* extract_company_and_role
BotExtract ==
    /\ bot.pc = "extract"
    /\ LET e == extract_company_and_role(bot.reply)
       IN  bot' = [bot EXCEPT !.company_name = e[1], !.role = e[2],
                              !.reply = NoReply,
                              !.steps = Append(@, "extract"),
                              !.error = (e[1] = Unknown),
                              !.pc = IF e[1] = Unknown THEN "returned"
                                     ELSE "research"]
    /\ BotFrame

\* line 503: research_company_comprehensive, whose searches and validations
\* return a dictionary whatever they find
BotResearch ==
    /\ bot.pc = "research"
    /\ bot' = [bot EXCEPT !.steps = Append(@, "research"),
                          !.pc = "interview"]
    /\ BotFrame

\* line 506, with search_web_with_validation(query, 2) for three queries
BotInterview ==
    /\ bot.pc = "interview"
    /\ \E searches \in [1 .. 3 -> SearchResults(2)] :
         bot' = [bot EXCEPT !.steps = Append(@, "interview"),
                            !.all_links = AllLinks(searches),
                            !.interview_links =
                                find_interview_resources(searches),
                            !.pc = "preparation"]
    /\ BotFrame

\* line 509, with search_web_with_validation(matching_query, 4) and the
\* second validation of its results
BotPreparation ==
    /\ bot.pc = "preparation"
    /\ \E n \in 0 .. 4, valid \in SUBSET {"p1", "p2", "p3", "p4"} :
         bot' = [bot EXCEPT
                   !.steps = Append(@, "preparation"),
                   !.prep_resources =
                       get_role_preparation_resources(bot.role,
                           Validated(Prefix(PrepRanking, n), valid)),
                   !.pc = "response"]
    /\ BotFrame

\* lines 512-515: an IndexError of the f-string leaves the method
BotResponse ==
    /\ bot.pc = "response"
    /\ bot' = IF Len(bot.prep_resources) < 4
              THEN [bot EXCEPT !.steps = Append(@, "response"),
                               !.pc = "raised"]
              ELSE [bot EXCEPT !.steps = Append(@, "response"),
                               !.response =
                                   generate_final_response_enhanced(
                                       bot.interview_links,
                                       bot.prep_resources),
                               !.pc = "link"]
    /\ BotFrame

\* lines 518-520: create_whatsapp_link and the return
BotLink ==
    /\ bot.pc = "link"
    /\ bot' = [bot EXCEPT !.steps = Append(@, "link"),
                          !.whatsapp_link = "api.whatsapp.com/send",
                          !.pc = "returned"]
    /\ BotFrame

NextBot ==
    \/ BotExtract
    \/ BotResearch
    \/ BotInterview
    \/ BotPreparation
    \/ BotResponse
    \/ BotLink

SpecBot == InitBot /\ [][NextBot]_vars

\* ------------------------------------------------------- run_interactive
\* what the user can type on a line: nothing, blanks, or text
InputLines == {<<>>, <<" ">>, <<"x">>}

ConsoleStart(typed) ==
    [pc |-> "reading", input |-> typed, pos |-> 0, email_lines |-> <<>>,
     empty_line_count |-> 0, email_content |-> <<>>, called |-> FALSE]

InitConsole ==
    /\ NoRun /\ Constructed /\ NoParse /\ NoRender /\ OneCall
    /\ bot = NoStep
    /\ \E n \in 0 .. MaxInput : \E typed \in [1 .. n -> InputLines] :
          console = ConsoleStart(typed)

ConsoleFrame ==
    UNCHANGED <<VIDEO_LIBS_AVAILABLE, slides, parallel_processing, config,
                pc, seq_i, executor, task, yielded, metrics, temp_files,
                files, video_clips, concat_arg, exports, retval, env,
                inversions, incs, closed, progress, calls, script, parsed,
                render_args, rendered, invocation, cleanup, bot>>

\* variant: a line with text does not reset the count of empty lines
ReadLine_NoReset ==
    /\ console.pc = "reading"
    /\ console.empty_line_count < 2
    /\ console.pos < Len(console.input)
    /\ LET line == console.input[console.pos + 1]
       IN  console' = [console EXCEPT
                 !.pos = @ + 1,
                 !.empty_line_count =
                     IF Strip(line) = <<>> THEN @ + 1 ELSE @,
                 !.email_lines = Append(@, line)]
    /\ ConsoleFrame

\* lines 561-567: one turn of the while-loop
ReadLine ==
    /\ console.pc = "reading"
    /\ console.empty_line_count < 2
    /\ console.pos < Len(console.input)
    /\ LET line == console.input[console.pos + 1]
       IN  console' = [console EXCEPT
                 !.pos = @ + 1,
                 !.empty_line_count =
                     IF Strip(line) = <<>> THEN @ + 1 ELSE 0,
                 !.email_lines = Append(@, line)]
    /\ ConsoleFrame

\* line 562 at the end of the input: input() raises EOFError, which leaves
\* the method
ReadEOF ==
    /\ console.pc = "reading"
    /\ console.empty_line_count < 2
    /\ console.pos = Len(console.input)
    /\ console' = [console EXCEPT !.pc = "eof"]
    /\ ConsoleFrame

\* lines 570-577: the content without the last two lines, the test for an
\* empty content, and the call of process_email_and_generate_whatsapp_link
EndOfEmail ==
    /\ console.pc = "reading"
    /\ console.empty_line_count >= 2
    /\ LET email_content ==
               Join(SubSeq(console.email_lines, 1,
                           Len(console.email_lines) - 2))
       IN  console' = [console EXCEPT
                 !.email_content = email_content,
                 !.called = (Strip(email_content) # <<>>),
                 !.pc = IF Strip(email_content) = <<>> THEN "returned"
                        ELSE "processing"]
    /\ ConsoleFrame

NextConsole ==
    \/ ReadLine
    \/ ReadEOF
    \/ EndOfEmail

SpecConsole == InitConsole /\ [][NextConsole]_vars

\* ================================================================ claims
\* every builder of the run has returned and the coordinator is past the
\* assembly of video_clips
AssemblyDone ==
    /\ pc \in {"check", "concat", "export", "done"}
    /\ \A i \in Idx : task[i].pc = "returned"

\* the clips of a list are in strictly ascending slide index
Ascending(s) ==
    \A a, b \in 1 .. Len(s) : a < b => s[a].slide < s[b].slide

\* the clips the builders of slides 0 .. k-1 produced, in input order
RECURSIVE ProducedUpTo(_)
ProducedUpTo(k) ==
    IF k = 0 THEN <<>>
    ELSE IF task[k - 1].clip # Null
         THEN Append(ProducedUpTo(k - 1), task[k - 1].clip)
         ELSE ProducedUpTo(k - 1)

\* the composition of the slide raised: the renderer or the PNG save, or
\* ImageClip on a path without narration
Fails(o) ==
    \/ o.render # "ok"
    \/ (~(o.tts >= 0 /\ o.attach) /\ ~o.image)

Clamp(x, lo, hi) == IF x < lo THEN lo ELSE IF x > hi THEN hi ELSE x

\* C1: on the parallel path, whatever the order in which the futures
\* complete, every list passed to concatenate_videoclips is in strictly
\* ascending slide index.
C1_ParallelOrder ==
    executor # 0 =>
        \A k \in 1 .. Len(concat_arg) : Ascending(concat_arg[k])

\* C1 witness: clips were appended out of input order and the list was
\* passed to concatenate_videoclips in input order
C1_Witness ==
    /\ executor # 0
    /\ inversions
    /\ Len(concat_arg) = 1
    /\ Len(concat_arg[1]) >= 2
    /\ Ascending(concat_arg[1])

\* C2: with at most 3 slides, or with parallel_processing off, no pool is
\* made, builders run on the calling thread one at a time, the builder of
\* a slide is entered only after the builders of all earlier slides have
\* returned, and the clips are in input order.
C2_Sequential ==
    (N <= 3 \/ ~parallel_processing) =>
        /\ executor = 0
        /\ pc \notin {"submit", "as_completed"}
        /\ \A i \in Idx : task[i].thread \in {"none", "main"}
        /\ Cardinality(Executing) <= 1
        /\ \A i, j \in Idx :
              (i < j /\ task[j].pc # "idle") => task[i].pc = "returned"
        /\ Ascending(video_clips)
        /\ AssemblyDone => video_clips = ProducedUpTo(N)

\* C2 witness: 3 slides with parallel_processing on, assembled on the
\* calling thread, all three clips in input order
C2_Witness ==
    /\ parallel_processing
    /\ N = 3
    /\ AssemblyDone
    /\ \A i \in Idx : task[i].thread = "main"
    /\ Len(video_clips) = 3
    /\ Ascending(video_clips)

\* C3: a pool exists exactly when parallel_processing is on and there are
\* more than 3 slides, its width is min(4, slide count), never more
\* builders execute at once than the pool is wide, and without a pool at
\* most one builder executes at a time.
C3_Pool ==
    LET width == IF N < 4 THEN N ELSE 4
    IN /\ executor # 0 => (parallel_processing /\ N > 3 /\ executor = width)
       /\ (\E i \in Idx : task[i].pc # "idle") =>
             (executor # 0 <=> (parallel_processing /\ N > 3))
       /\ Cardinality(Executing) <= (IF executor # 0 THEN width ELSE 1)
       /\ \A i \in Executing :
             task[i].thread = (IF executor # 0 THEN "worker" ELSE "main")

\* C3 witness: 5 slides, 4 builders executing and the fifth still queued
C3_Witness ==
    /\ N = 5
    /\ executor = 4
    /\ Cardinality(Executing) = 4
    /\ task[4].pc = "queued"

\* C4: on both paths, once assembly is over video_clips is exactly the
\* clips of the slides whose builder returned one, in input order, each
\* once and with no entry for a slide whose builder returned None; the
\* same list is what concatenate_videoclips gets.
C4_Subsequence ==
    AssemblyDone =>
        /\ video_clips = ProducedUpTo(N)
        /\ Len(video_clips) <= N
        /\ \A k \in 1 .. Len(video_clips) : video_clips[k] # Null
        /\ \A k \in 1 .. Len(concat_arg) : concat_arg[k] = ProducedUpTo(N)

\* C4 witness: a parallel run in which some builders returned None and
\* the shorter list reached concatenate_videoclips
C4_Witness ==
    /\ AssemblyDone
    /\ executor # 0
    /\ Len(video_clips) > 0
    /\ Len(video_clips) < N
    /\ Len(concat_arg) = 1
    /\ concat_arg[1] = ProducedUpTo(N)

\* C5: when every builder has returned None the run returns None, and
\* concatenate_videoclips and write_videofile are never called.
C5_ZeroClips ==
    (N > 0 /\ \A i \in Idx : task[i].pc = "returned" /\ task[i].clip = Null)
        => /\ concat_arg = <<>>
           /\ exports = 0
           /\ pc \notin {"concat", "export"}
           /\ pc = "done" => retval = "None"

\* C5 witness: a parallel run in which every builder returned None has
\* returned None
C5_Witness ==
    /\ N > 0
    /\ executor # 0
    /\ \A i \in Idx : task[i].pc = "returned" /\ task[i].clip = Null
    /\ pc = "done"
    /\ retval = "None"

\* C6: with an empty slide list the run goes from its entry straight to
\* returning None: no generator state is touched, no builder runs, no
\* temporary file exists or is registered, nothing is concatenated or
\* exported.
C6_EmptyList ==
    N = 0 =>
        /\ pc \in {"entry", "done"}
        /\ pc = "done" => retval = "None"
        /\ metrics = SlideMetrics
        /\ files = {}
        /\ temp_files = {}
        /\ concat_arg = <<>>
        /\ exports = 0

\* C6 witness: the libraries are available, the list is empty and the run
\* has returned None
C6_Witness ==
    /\ VIDEO_LIBS_AVAILABLE
    /\ N = 0
    /\ pc = "done"
    /\ retval = "None"

\* C7: with min_slide_duration <= max_slide_duration, a clip that carries
\* narration of length d lasts clamp(d + 1, min, max), a clip without
\* narration lasts min, and every clip lasts between min and max.
C7_Duration ==
    \A i \in Idx :
        (task[i].clip # Null
            /\ config.min_slide_duration <= config.max_slide_duration) =>
        LET o == task[i].outcome
            c == task[i].clip
        IN /\ c.audio <=> (o.tts >= 0 /\ o.attach)
           /\ c.duration = (IF c.audio
                            THEN Clamp(o.tts + 1, config.min_slide_duration,
                                       config.max_slide_duration)
                            ELSE config.min_slide_duration)
           /\ c.duration >= config.min_slide_duration
           /\ c.duration <= config.max_slide_duration

\* C7 witness: a narration with d + 1 above max_slide_duration, the clip
\* lasting exactly max_slide_duration
C7_Witness ==
    \E i \in Idx :
        /\ task[i].pc = "returned"
        /\ task[i].clip.audio
        /\ config.min_slide_duration < config.max_slide_duration
        /\ task[i].outcome.tts + 1 > config.max_slide_duration
        /\ task[i].clip.duration = config.max_slide_duration

\* C8: a slide whose narration is missing, or whose audio could not be
\* attached, and whose silent composition does not raise, still gets a
\* silent clip of exactly min_slide_duration; processed_slides is
\* incremented once for it, failed_slides not at all, and the clip is in
\* the final list.
C8_SilentFallback ==
    \A i \in Idx :
        LET o == task[i].outcome
        IN (/\ task[i].pc = "returned"
            /\ o.render = "ok"
            /\ (o.tts < 0 \/ ~o.attach)
            /\ o.image) =>
           /\ task[i].clip = [slide |-> i,
                              duration |-> config.min_slide_duration,
                              audio |-> FALSE]
           /\ incs[i] = [processed |-> 1, failed |-> 0]
           /\ AssemblyDone =>
                 \E k \in 1 .. Len(video_clips) : video_clips[k] = task[i].clip

\* C8 witness: a finished run with one slide without narration and one
\* whose audio attachment raised, both in the exported list
C8_Witness ==
    /\ pc = "done"
    /\ retval = "path"
    /\ \E i, j \in Idx :
          /\ task[i].outcome.tts < 0
          /\ task[j].outcome.tts >= 0 /\ ~task[j].outcome.attach
          /\ \E k \in 1 .. Len(video_clips) : video_clips[k] = task[i].clip
          /\ \E k \in 1 .. Len(video_clips) : video_clips[k] = task[j].clip
          /\ incs[i].processed = 1
          /\ incs[j].processed = 1

\* C9: a slide whose composition raises makes the builder return None, is
\* absent from the final list and has failed_slides incremented exactly
\* once over the whole run; a slide that got a clip has it incremented
\* never; on the sequential path the counter ends at the number of failed
\* slides.
C9_FailureCount ==
    /\ \A i \in Idx :
          /\ incs[i].failed <= 1
          /\ incs[i].failed = 1 => Fails(task[i].outcome)
    /\ AssemblyDone =>
          /\ \A i \in Idx :
                IF Fails(task[i].outcome)
                THEN /\ task[i].clip = Null
                     /\ incs[i] = [processed |-> 0, failed |-> 1]
                     /\ \A k \in 1 .. Len(video_clips) :
                           video_clips[k].slide # i
                ELSE /\ task[i].clip # Null
                     /\ incs[i].failed = 0
          /\ executor = 0 =>
                metrics.failed_slides =
                    Cardinality({i \in Idx : Fails(task[i].outcome)})

\* C9 witness: a parallel run with a slide that failed and one that did
\* not, assembly over
C9_Witness ==
    /\ AssemblyDone
    /\ executor # 0
    /\ \E i, j \in Idx :
          /\ Fails(task[i].outcome)
          /\ incs[i].failed = 1
          /\ ~Fails(task[j].outcome)
          /\ incs[j].failed = 0
          /\ \E k \in 1 .. Len(video_clips) : video_clips[k].slide = j

\* C10: 5 slides, exactly 2 of which fail composition: for every
\* interleaving of the workers the final list has the 3 clips in input
\* order and the metrics read failed_slides = 2 and processed_slides = 3.
C10_ScenarioB ==
    (/\ N = 5
     /\ executor # 0
     /\ AssemblyDone
     /\ Cardinality({i \in Idx : Fails(task[i].outcome)}) = 2) =>
        /\ Len(video_clips) = 3
        /\ Ascending(video_clips)
        /\ metrics.failed_slides = 2
        /\ metrics.processed_slides = 3

\* the sum of the durations of the clips of a list
RECURSIVE SumDurations(_)
SumDurations(s) ==
    IF s = <<>> THEN 0 ELSE Head(s).duration + SumDurations(Tail(s))

\* C11: 4 slides whose narration and composition all succeed: the run uses
\* a pool of 4 threads, the final list has the 4 clips in input order, and
\* for every interleaving of the workers metrics.total_duration is the sum
\* of the durations of the 4 clips.
C11_ScenarioA ==
    (/\ N = 4
     /\ parallel_processing
     /\ VIDEO_LIBS_AVAILABLE
     /\ AssemblyDone
     /\ \A i \in Idx : task[i].clip # Null /\ task[i].clip.audio) =>
        /\ executor = 4
        /\ Len(video_clips) = 4
        /\ Ascending(video_clips)
        /\ metrics.total_duration = SumDurations(video_clips)

\* C12: when concatenate_videoclips or the encoder raises, the run returns
\* None and at its return no temporary file of the run is left: no slide
\* image, no narration audio, no partly written output video, and nothing
\* is still registered.
C12_ExportFailureCleanup ==
    (pc = "done" /\ concat_arg # <<>> /\ retval # "path") =>
        /\ retval = "None"
        /\ temp_files = {}
        /\ files = {}

\* C13: when the run returns because no clip was produced, the files the
\* failed builders created and registered have been removed: temp_files is
\* empty and none of the files exists.
C13_ZeroClipsCleanup ==
    (/\ pc = "done"
     /\ VIDEO_LIBS_AVAILABLE
     /\ N > 0
     /\ video_clips = <<>>) =>
        /\ temp_files = {}
        /\ \A i \in Idx : Png(i) \notin files /\ Mp3(i) \notin files

\* C14: every slide image, raw speech file and narration file that exists
\* after the step that created it is registered in temp_files, also when
\* the synthesizer or the composition raised part-way.
C14_Registered ==
    \A i \in Idx :
        \A f \in {Png(i), Tts(i), Mp3(i)} :
            (task[i].pc \notin {"idle", "queued", "build"} /\ f \in files)
                => f \in temp_files

\* C15: once concatenate_videoclips has been called, the run does not
\* return before every clip of the final list has been closed, and the
\* audio of every clip that has one; this on success and when the
\* concatenation or the encoder raises.
C15_ClipsClosed ==
    (pc = "done" /\ concat_arg # <<>>) =>
        \A k \in 1 .. Len(video_clips) :
            /\ <<"clip", video_clips[k].slide>> \in closed
            /\ video_clips[k].audio =>
                  <<"audio", video_clips[k].slide>> \in closed

\* C16: the stage-2 progress k / len(slides) reported during slide
\* assembly never goes down from one report to the next and stays between
\* 0 and 1, on the sequential and on the parallel path, whatever the order
\* in which the workers complete.
C16_ProgressMonotone ==
    [][/\ progress' >= progress
       /\ progress' # progress => (0 <= progress' /\ progress' <= N)]_vars

\* C16 witness: a parallel run whose futures completed out of input order,
\* one of them without a clip, with the last report at 3 of 4
C16_Witness ==
    /\ executor # 0
    /\ inversions
    /\ yielded = Idx
    /\ N = 4
    /\ progress = 3

\* the text holds nothing but slide-delimiter markup and blanks
MarkupOnly(t) == \A k \in 1 .. Len(t) : t[k] \in {"[SLIDE", "]", " ", "\n"}

\* C18: the synthesizer never makes the builder fail.  For a content that
\* is only slide-delimiter markup it gives no narration and the speech
\* engine is not called; when the engine, the load, the speed-up or the
\* export raises it gives no narration either; and with no narration the
\* builder makes the silent clip of min_slide_duration and counts the
\* slide as processed, not failed, unless the silent composition raises.
C18_SynthesizerTotal ==
    \A i \in Idx :
        LET o == task[i].outcome
        IN (task[i].pc \notin {"idle", "queued", "build"}
               /\ o.render = "ok") =>
           /\ calls[i].synth = 1
           /\ MarkupOnly(slides[i + 1]) =>
                 (calls[i].engine = 0 /\ o.tts = -1)
           /\ o.synth \in {"engine", "save", "export"} =>
                 (calls[i].engine = 1 /\ o.tts = -1)
           /\ (o.tts = -1 /\ o.image) =>
                 /\ task[i].clip = [slide |-> i,
                                    duration |-> config.min_slide_duration,
                                    audio |-> FALSE]
                 /\ task[i].pc # "fail_rd"
                 /\ incs[i].failed = 0

\* C18 witness: a slide whose content is the markup "[SLIDE" "]" alone:
\* the engine was not called, the silent clip was exported
C18_Witness ==
    /\ slides = << <<"[SLIDE", "]">> >>
    /\ pc = "done"
    /\ retval = "path"
    /\ calls[0].synth = 1
    /\ calls[0].engine = 0
    /\ video_clips = <<[slide |-> 0,
                        duration |-> config.min_slide_duration,
                        audio |-> FALSE]>>

\* C20: nothing is retried.  The builder is entered at most once per
\* slide, and exactly once per slide by the time the assembly is over; the
\* synthesizer and the speech engine are called at most once per slide;
\* concatenate_videoclips and write_videofile are called at most once;
\* whatever fails.
C20_NoRetries ==
    /\ \A i \in Idx :
          /\ calls[i].builder <= 1
          /\ calls[i].synth <= 1
          /\ calls[i].engine <= 1
          /\ task[i].pc \notin {"idle", "queued"} => calls[i].builder = 1
    /\ Len(concat_arg) <= 1
    /\ exports <= 1
    /\ (pc \in {"check", "concat", "export"} \/ (pc = "done" /\ progress >= 0))
          => \A i \in Idx : calls[i].builder = 1

\* C20 witness: a run that ended in failure at the encoder, with a slide
\* whose composition raised and a slide whose speech engine raised: one
\* builder call each, one engine call, one export
C20_Witness ==
    /\ pc = "done"
    /\ retval = "None"
    /\ exports = 1
    /\ \E i, j \in Idx :
          /\ Fails(task[i].outcome)
          /\ calls[i].builder = 1
          /\ task[j].outcome.synth = "engine"
          /\ calls[j] = [builder |-> 1, synth |-> 1, engine |-> 1]
          /\ task[j].clip # Null

\* C17: a slide renderer never raises.  For every slide, with or without
\* title and content, every template name, every logo value and
\* 1 <= slide_num <= total_slides it returns an image of the configured
\* resolution, an unrecognized template name gives the renderer's default
\* scheme, and a failure of the logo paste, the font load, the text layout
\* or the visual effects is skipped.
C17_RendererTotal ==
    (rendered # NotRendered /\ "paint" \notin render_args.fails) =>
        /\ rendered.result = "image"
        /\ rendered.size = render_args.resolution
        /\ render_args.template = "unknown" =>
              rendered.scheme \in {"default", "Tech-Forward"}

\* nothing but blanks and newlines
Blank(t) == \A k \in 1 .. Len(t) : t[k] \in Whitespace

\* the positions of the header openings of the script that are followed by
\* a closing bracket at the end of a line
HeaderPositions ==
    {p \in 1 .. Len(script) :
        /\ script[p] = Header
        /\ \E q \in (p + 1) .. (Len(script) - 1) :
              script[q] = "]" /\ script[q + 1] = "\n"}

\* the title of the header at p: up to the first bracket that ends a line
TitleOf(p) ==
    LET q == CHOOSE q \in (p + 1) .. (Len(script) - 1) :
                 /\ script[q] = "]" /\ script[q + 1] = "\n"
                 /\ \A r \in (p + 1) .. (q - 1) :
                       ~(script[r] = "]" /\ script[r + 1] = "\n")
    IN SubSeq(script, p + 1, q - 1)

\* the body of the header at p: from the line after the title up to the
\* line before the next header opening, or to the end of the script
BodyOf(p) ==
    LET b == p + Len(TitleOf(p)) + 3
        ends == {e \in b .. (Len(script) + 1) :
                    \/ e = Len(script) + 1
                    \/ (script[e] = "\n" /\ e + 1 <= Len(script)
                                         /\ script[e + 1] = Header)}
        e == CHOOSE e \in ends : \A x \in ends : e <= x
    IN SubSeq(script, b, e - 1)

\* C19: every slide parse_script_into_slides returns has a title and a
\* content that are not empty and not blank; the slides come from headers
\* of the script in the order of those headers, one header each; and no
\* slide comes from a header whose title or body is empty or blank.
C19_ParsedSlides ==
    parsed.done =>
        LET n == Len(parsed.slides)
        IN /\ \A k \in 1 .. n :
                 /\ parsed.slides[k].title # <<>>
                 /\ ~Blank(parsed.slides[k].title)
                 /\ parsed.slides[k].content # <<>>
                 /\ ~Blank(parsed.slides[k].content)
           /\ \E f \in [1 .. n -> HeaderPositions] :
                 /\ \A j, k \in 1 .. n : j < k => f[j] < f[k]
                 /\ \A k \in 1 .. n :
                       /\ ~Blank(TitleOf(f[k]))
                       /\ ~Blank(BodyOf(f[k]))
                       /\ parsed.slides[k].title = Strip(TitleOf(f[k]))

\* C19 witness: a script of two headers, the first with a blank title and
\* a body, the second with title and body: one slide, from the second
C19_Witness ==
    /\ script = <<Header, " ", "]", "\n", "a", "\n",
                  Header, "b", "]", "\n", "a">>
    /\ parsed.done
    /\ parsed.slides = <<[title |-> <<"b">>, content |-> <<"a">>]>>

\* C23: on the parallel path the coordinator is past the pool (at the test
\* for zero clips, at the concatenation, at the export or returned) only
\* when every submitted builder has returned and its future was collected:
\* in no state has the concatenation started, or the run returned, while a
\* builder is queued or executing.
C23_JoinBeforeConcat ==
    (executor # 0 /\ (pc \in {"check", "concat", "export", "done"}
                      \/ concat_arg # <<>> \/ retval # "running")) =>
        /\ Executing = {}
        /\ \A i \in Idx : task[i].pc = "returned"
        /\ yielded = Idx

\* a parallel run is at the concatenation after every builder has run on
\* a pool thread
C23_Witness ==
    /\ executor # 0
    /\ pc = "concat"
    /\ \A i \in Idx : task[i].thread # "main" /\ task[i].pc = "returned"

\* the `+= 1' statements executed so far on one counter, over all slides
RECURSIVE IncrementsUpTo(_, _)
IncrementsUpTo(k, f) ==
    IF k = 0 THEN 0 ELSE incs[k - 1][f] + IncrementsUpTo(k - 1, f)

Increments(f) == IncrementsUpTo(N, f)

\* C24: processed_slides and failed_slides are updated by a read followed
\* by a write of the value read plus one, with no lock: a counter never
\* exceeds the number of `+= 1' statements executed on it (total_duration
\* never the durations added to it), it equals that number as long as one
\* thread executes them (no pool), and with pool threads it can stay below
\* it: an update is lost.
C24_LostUpdate ==
    /\ metrics.processed_slides <= Increments("processed")
    /\ metrics.failed_slides <= Increments("failed")
    /\ AssemblyDone =>
          metrics.total_duration <= SumDurations(ProducedUpTo(N))
    /\ executor = 0 =>
          /\ metrics.processed_slides = Increments("processed")
          /\ metrics.failed_slides = Increments("failed")
          /\ AssemblyDone =>
                metrics.total_duration = SumDurations(ProducedUpTo(N))

\* every builder has returned after a run on the pool, and the counter of
\* processed slides is smaller than the number of increments executed
C24_Witness ==
    /\ executor # 0
    /\ AssemblyDone
    /\ metrics.processed_slides < Increments("processed")

\* C26: on the sequential path, each time the builder of a slide has
\* returned and its result was taken, and to the end of the run,
\* processed_slides + failed_slides is the number of slides built so far
\* (total_slides once the loop is over), processed_slides is the length of
\* the clip list, and total_duration is the sum of the durations of the
\* clips of the list.
C26_SequentialMetrics ==
    /\ (executor = 0 /\ pc \in {"sequential", "check", "concat",
                                "export", "done"}) =>
          /\ metrics.processed_slides + metrics.failed_slides = seq_i
          /\ metrics.processed_slides = Len(video_clips)
          /\ metrics.total_duration = SumDurations(video_clips)
          /\ pc # "sequential" => seq_i = metrics.total_slides
    /\ (pc = "in_builder" /\ task[seq_i].pc = "returned") =>
          /\ metrics.processed_slides + metrics.failed_slides = seq_i + 1
          /\ metrics.processed_slides =
                Len(video_clips) + (IF task[seq_i].clip # Null THEN 1 ELSE 0)

\* a sequential run is over its loop with a failed slide, a clip of the
\* minimum duration and a longer one
C26_Witness ==
    /\ executor = 0
    /\ pc = "check"
    /\ metrics.failed_slides >= 1
    /\ \E a, b \in 1 .. Len(video_clips) :
          video_clips[a].duration < video_clips[b].duration

\* C21: the VideoConfig of a run is never written: no step of the
\* coordinator, of a slide builder on any thread, or of the export changes
\* a field of generator.config, so at the return of the run, whatever its
\* outcome, the configuration is the one the generator was constructed with.
C21_ConfigFrozen == [][config' = config]_vars

\* a run on the pool has exported its video and returned, after builders
\* have read the duration limits, with the configuration it started with
C21_Witness ==
    /\ pc = "done"
    /\ retval = "path"
    /\ executor # 0
    /\ \E i \in Idx : task[i].clip # Null /\ task[i].clip.audio
    /\ config = VideoConfig(1, MaxConfigDuration)

\* C22: nothing of the generator is retained from one call of
\* create_professional_placement_video to the next: whatever the earlier
\* calls did, a call starts with all four SlideMetrics counters zero and
\* an empty temp-file registry, and during the call the counters count
\* only its own slides and the registry holds only files it created.
C22_NothingRetained ==
    /\ pc = "entry" => metrics = SlideMetrics /\ temp_files = {}
    /\ metrics.total_slides \in {0, N}
    /\ metrics.processed_slides + metrics.failed_slides <= N
    /\ metrics.processed_slides = Increments("processed")
    /\ metrics.failed_slides = Increments("failed")
    /\ \A f \in temp_files : f[1] # "old"

\* a second call is entered after a call that has built slides and left a
\* file on disk
C22_Witness ==
    /\ invocation = 2
    /\ pc = "entry"
    /\ N > 0
    /\ \E f \in files : f[1] = "old"

\* C25: _cleanup_temp_files is best-effort and always empties the
\* registry.  After a call no exception has left it, temp_files is empty,
\* and every registered path is gone from disk except those whose deletion
\* raised, whether or not other paths were missing or failed; files that
\* were not registered are untouched; a second call changes neither the
\* registry nor the disk.
C25_CleanupBestEffort ==
    [][/\ cleanup'.calls >= 1 =>
            /\ ~cleanup'.raised
            /\ temp_files' = {}
            /\ files' \cap cleanup'.registered = cleanup'.failing
            /\ files' \ cleanup'.registered =
                  cleanup'.existed \ cleanup'.registered
       /\ cleanup.calls = 1 => files' = files /\ temp_files' = temp_files]_vars

\* a call has returned in which one registered path was missing, the
\* deletion of one raised and one was deleted
C25_Witness ==
    /\ cleanup.calls = 1
    /\ cleanup.registered \ cleanup.existed # {}
    /\ cleanup.failing # {}
    /\ (cleanup.registered \cap cleanup.existed) \ cleanup.failing # {}
    /\ temp_files = {}

\* C28: whatever the role and the search results, the list returned by
\* get_role_preparation_resources has at least 4 entries, so the response
\* step, which reads prep_resources[0] .. prep_resources[3], never raises
\* an IndexError in process_email_and_generate_whatsapp_link.
C28_FourResources ==
    /\ bot.pc \in {"response", "link", "raised", "returned"} /\ ~bot.error
          => Len(bot.prep_resources) >= 4
    /\ bot.pc # "raised"

\* C29: the find_interview_resources in effect (the later definition)
\* returns, whatever the three searches found, 3 or 4 links: first the
\* validated search results, in the order found and at most 3 of them,
\* then fallback links, of which there is at least one.
C29_InterviewLinks ==
    (bot.pc \in {"preparation", "response", "link", "raised", "returned"}
     /\ ~bot.error) =>
        LET links == bot.interview_links
            k == Min(3, Len(bot.all_links))
        IN  /\ Len(links) \in 3 .. 4
            /\ k < Len(links)
            /\ \A j \in 1 .. k : links[j] = bot.all_links[j]
            /\ \A j \in k + 1 .. Len(links) :
                  /\ j - k <= Len(fallback_links)
                  /\ links[j] = fallback_links[j - k]

\* the searches found four different links: three of them are returned,
\* followed by one fallback link
C29_Witness ==
    /\ bot.pc = "preparation"
    /\ Len(bot.all_links) = 4
    /\ Len(bot.interview_links) = 4
    /\ bot.interview_links[4] = fallback_links[1]
    /\ bot.interview_links[3] # fallback_links[1]

\* the six steps of process_email_and_generate_whatsapp_link
BotSteps == <<"extract", "research", "interview", "preparation",
              "response", "link">>

\* C27: when extraction yields the company name "Unknown" (as it does when
\* Gemini returns nothing) the method returns the error message and an
\* empty link after the extraction alone: no research, no search, no link.
\* Otherwise its steps run in the order extract, research, interview
\* resources, preparation resources, response, link, and it returns after
\* the six of them.
C27_StepsInOrder ==
    /\ bot.pc # "none" =>
          /\ Len(bot.steps) <= Len(BotSteps)
          /\ bot.steps = SubSeq(BotSteps, 1, Len(bot.steps))
    /\ bot.pc \in {"returned", "raised"} =>
          IF bot.company_name = Unknown
          THEN /\ bot.error
               /\ bot.pc = "returned"
               /\ bot.steps = <<"extract">>
               /\ bot.whatsapp_link = ""
          ELSE /\ ~bot.error
               /\ bot.pc = "returned"
               /\ bot.steps = BotSteps

\* lines p-1 and p of the input are both blank
DoubleBlankAt(typed, p) ==
    /\ p >= 2 /\ p <= Len(typed)
    /\ Strip(typed[p - 1]) = <<>>
    /\ Strip(typed[p]) = <<>>

\* C30: run_interactive stops reading exactly at the first two consecutive
\* blank lines of the input (a line with text in between starts the count
\* again), the email content is every line before those two, joined by
\* newlines with the single blank lines among them kept, and when that
\* content is blank the method returns without calling
\* process_email_and_generate_whatsapp_link.
C30_ReadUntilDoubleBlank ==
    /\ console.pc \in {"reading", "eof"} /\ console.empty_line_count < 2 =>
          \A q \in 1 .. console.pos : ~DoubleBlankAt(console.input, q)
    /\ console.pc = "eof" => console.pos = Len(console.input)
    /\ console.pc \in {"returned", "processing"} =>
          /\ DoubleBlankAt(console.input, console.pos)
          /\ \A q \in 1 .. console.pos - 1 : ~DoubleBlankAt(console.input, q)
          /\ console.email_content =
                Join(SubSeq(console.input, 1, console.pos - 2))
          /\ console.called <=> (Strip(console.email_content) # <<>>)
          /\ console.called <=> (console.pc = "processing")

\* the email has a blank line between two lines of text, and was passed on
C30_Witness ==
    /\ console.pc = "processing"
    /\ console.called
    /\ \E k \in 2 .. console.pos - 3 :
          /\ Strip(console.input[k]) = <<>>
          /\ Strip(console.input[k - 1]) # <<>>
          /\ Strip(console.input[k + 1]) # <<>>
    /\ console.email_content = <<"x", "\n", "\n", "x">>
====
